---- MODULE Spec2Model ----
(***************************************************************************)
(* caplog: a capturing logger for tests (src/src/lib.rs).                  *)
(*                                                                         *)
(* A process-wide sink (TestLogger) is installed once into the `log`       *)
(* facade through LOG_INIT_ONCE; every record dispatched to it is          *)
(* appended to the thread-local LOG_RECORDS of the emitting thread; a      *)
(* CapLog handle queries (get_all, find) and clears that buffer, and       *)
(* clears it again when it is dropped.                                     *)
(***************************************************************************)
EXTENDS Naturals, Sequences, FiniteSets

(* ------------------------------------------------------------------ *)
(* Bounds of the model                                                 *)
(* ------------------------------------------------------------------ *)

\* Total number of log macro invocations in one behaviour of Spec.
MaxEmits == 2

\* Number of log macro invocations in one behaviour of SpecSeq.
MaxSeqEmits == 5

\* The threads of the process and the identities of CapLog values.
Threads == {"t1", "t2"}
Handles == {"h1", "h2"}
NoThread == "none"

(* ------------------------------------------------------------------ *)
(* log::Level / log::LevelFilter                                       *)
(* ------------------------------------------------------------------ *)

LevelError == 1
LevelWarn == 2
LevelInfo == 3
LevelDebug == 4
LevelTrace == 5
Levels == {LevelError, LevelWarn, LevelInfo, LevelDebug, LevelTrace}

\* LevelFilter::Off, the facade's threshold before anybody sets it.
LevelFilterOff == 0
\* LevelFilter::Trace, the threshold CapLog::new installs.
LevelFilterTrace == 5

(* ------------------------------------------------------------------ *)
(* Records of the facade and captured records                          *)
(* ------------------------------------------------------------------ *)

\* Option<T>: None is the empty sequence, Some(x) the sequence <<x>>.
None == <<>>
Some(x) == <<x>>

\* Option::map, as used on module_path and file: the payload is copied.
OptionMap(o) == IF o = None THEN None ELSE Some(o[1])

\* A log::Record as a log macro builds it at its call site.
Record(l, m, ln) ==
    [level |-> l, target |-> "caplog::test_caplog", args |-> m,
     module_path |-> Some("caplog::test_caplog"),
     file |-> Some("src/lib.rs"), line |-> Some(ln)]

\* The records the log macros of the test module emit, one per level.
Records ==
    { Record(LevelTrace, "foo", 164), Record(LevelDebug, "foo", 165),
      Record(LevelInfo, "foobar", 185), Record(LevelWarn, "foo", 167),
      Record(LevelError, "baz", 186) }

\* impl From<&Record> for CapRecord
CapRecordFrom(r) ==
    [level |-> r.level, target |-> r.target, msg |-> r.args,
     module_path |-> OptionMap(r.module_path), file |-> OptionMap(r.file),
     line |-> r.line]

(* ------------------------------------------------------------------ *)
(* State                                                               *)
(* ------------------------------------------------------------------ *)

VARIABLES
    once,             \* LOG_INIT_ONCE: INCOMPLETE, RUNNING, COMPLETE, POISONED
    logger,           \* the sink installed in the facade: Nop, TestLogger, Foreign
    max_level,        \* the facade's global threshold (a LevelFilter)
    LOG_RECORDS,      \* thread -> its thread-local Vec<CapRecord>
    pc,               \* thread -> where it stands
    holder,           \* handle -> the thread that owns it, NoThread when not live
    ret,              \* the value the last call returned, while nothing changed since
    budget,           \* log macro invocations the behaviour may still make
    set_logger_calls, \* history: invocations of log::set_logger by CapLog::new
    sent,             \* history: thread -> records emitted in its current epoch
    epoch             \* history: thread -> what opened its current epoch

vars == <<once, logger, max_level, LOG_RECORDS, pc, holder, ret,
          budget, set_logger_calls, sent, epoch>>

NoRet == [op |-> "none"]

(* ------------------------------------------------------------------ *)
(* The code, as operators                                              *)
(* ------------------------------------------------------------------ *)

\* Faulty variant: LOG_RECORDS is a plain static, one buffer for every thread.
LOG_RECORDS_with_static(t) == "t1"

\* thread_local!(static LOG_RECORDS ...): the buffer LOG_RECORDS.with reaches
\* is the one of the executing thread.
LOG_RECORDS_with(t) == t

\* TestLogger::enabled
enabled(metadata) == TRUE

\* The log macros: a record reaches the installed sink only when its level
\* passes the global threshold.
MacroDispatches(r) == r.level <= max_level

\* RefCell: borrow_mut panics when the cell is borrowed at all, borrow
\* panics when it is borrowed mutably. `borrowed` is the borrow the
\* executing thread already holds on its LOG_RECORDS: "none", "shared"
\* or "mut".
RefCell_borrow_mut(borrowed) == IF borrowed = "none" THEN "ok" ELSE "panic"
RefCell_borrow(borrowed) == IF borrowed = "mut" THEN "panic" ELSE "ok"

\* Faulty variant: the record is inserted at the front of the buffer.
log_front(t, record) ==
    [LOG_RECORDS EXCEPT ![t] = <<CapRecordFrom(record)>> \o @]

\* Faulty variant: a buffer of one record, the oldest is evicted.
log_evicting(t, record) ==
    [LOG_RECORDS EXCEPT ![t] = <<CapRecordFrom(record)>>]

\* TestLogger::log: records.borrow_mut().push(record.into())
log(t, record) ==
    [LOG_RECORDS EXCEPT ![LOG_RECORDS_with(t)] = Append(@, CapRecordFrom(record))]

\* Faulty variant: a check-then-act flag instead of a Once: a caller that finds the
\* initialisation running runs it too.
call_once_unsynchronised(state) ==
    CASE state = "INCOMPLETE" -> "run"
      [] state = "RUNNING" -> "run"
      [] state = "COMPLETE" -> "return"
      [] state = "POISONED" -> "panic"

\* Faulty variant: a caller that finds the initialisation running does not wait.
call_once_no_wait(state) ==
    CASE state = "INCOMPLETE" -> "run"
      [] state = "RUNNING" -> "return"
      [] state = "COMPLETE" -> "return"
      [] state = "POISONED" -> "panic"

\* Faulty variant: call_once_force, a poisoned Once runs the closure again.
call_once_retry(state) ==
    CASE state = "INCOMPLETE" -> "run"
      [] state = "RUNNING" -> "wait"
      [] state = "COMPLETE" -> "return"
      [] state = "POISONED" -> "run"

\* Once::call_once: what a caller does on each state of the Once.
call_once(state) ==
    CASE state = "INCOMPLETE" -> "run"
      [] state = "RUNNING" -> "wait"
      [] state = "COMPLETE" -> "return"
      [] state = "POISONED" -> "panic"

\* log::set_logger: succeeds only while no sink is installed.
set_logger(installed) == IF installed = "Nop" THEN "Ok" ELSE "Err"

\* Faulty variant: the result of set_logger is ignored instead of expect-ed.
closure_ignores_err(result) == "set_max_level"

\* set_logger(..).map(|()| set_max_level(..)).expect(..): the closure goes on
\* to set the threshold on Ok and panics on Err.
closure_after_set_logger(result) ==
    IF result = "Ok" THEN "set_max_level" ELSE "panic"

\* Faulty variant: the threshold installed is LevelFilter::Info.
set_max_level_info(current) == LevelInfo

\* log::set_max_level(log::LevelFilter::Trace)
set_max_level(current) == LevelFilterTrace

\* The predicates the callers of find pass: |_| true, |_| false,
\* |r| r.level == lvl and |r| r.msg == text.
Always == [kind |-> "always", level |-> 0, msg |-> ""]
Never == [kind |-> "never", level |-> 0, msg |-> ""]
LevelIs(l) == [kind |-> "level", level |-> l, msg |-> ""]
MsgIs(text) == [kind |-> "msg", level |-> 0, msg |-> text]

\* Predicates that are not pure: |_| { log::info!("foobar"); true } emits
\* a record while it is evaluated, |_| !handle.get_all().is_empty() queries
\* the buffer find is iterating over.
Emitting == [kind |-> "emits", level |-> LevelInfo, msg |-> "foobar"]
Querying == [kind |-> "queries", level |-> 0, msg |-> ""]

\* The predicates of the concurrent specification, those of the
\* sequential one, and those of the specification of find with
\* predicates that are not pure.
Matchers == {Always, LevelIs(LevelError)}
SeqMatchers ==
    {Always, Never, MsgIs("foobar")} \cup {LevelIs(l) : l \in Levels}
ImpureMatchers == {Always, Emitting, Querying}

matcher(m, r) ==
    CASE m.kind = "always" -> TRUE
      [] m.kind = "never" -> FALSE
      [] m.kind = "level" -> r.level = m.level
      [] m.kind = "msg" -> r.msg = m.msg
      [] m.kind = "emits" -> TRUE
      [] m.kind = "queries" -> TRUE

\* How the call of the predicate ends while find holds records.borrow():
\* a predicate that emits reaches TestLogger::log and its borrow_mut, one
\* that queries reaches get_all and its borrow.
matcher_call(m) ==
    CASE m.kind = "emits" ->
            IF MacroDispatches(m) /\ logger = "TestLogger"
            THEN RefCell_borrow_mut("shared") ELSE "ok"
      [] m.kind = "queries" -> RefCell_borrow("shared")
      [] OTHER -> "ok"

\* Faulty variant: take_while instead of filter.
RECURSIVE iter_take_while(_, _)
iter_take_while(records, m) ==
    IF records = <<>> THEN <<>>
    ELSE IF matcher(m, Head(records))
         THEN <<Head(records)>> \o iter_take_while(Tail(records), m)
         ELSE <<>>

\* records.iter().filter(|r| matcher(r)).cloned().collect()
RECURSIVE iter_filter(_, _)
iter_filter(records, m) ==
    IF records = <<>> THEN <<>>
    ELSE LET rest == iter_filter(Tail(records), m)
         IN  IF matcher(m, Head(records)) THEN <<Head(records)>> \o rest
             ELSE rest

\* CapLog::get_all: records.borrow().iter().cloned().collect()
get_all(self, t) ==
    LET records == LOG_RECORDS[LOG_RECORDS_with(t)]
    IN  [i \in 1..Len(records) |-> records[i]]

\* CapLog::find
find(self, t, m) == iter_filter(LOG_RECORDS[LOG_RECORDS_with(t)], m)

\* Faulty variant: clear empties a copy of the buffer.
clear_copy(self, t) == LOG_RECORDS

\* Faulty variant: one map of buffers for all threads, emptied as a whole.
clear_all(self, t) == [u \in DOMAIN LOG_RECORDS |-> <<>>]

\* CapLog::clear: records.borrow_mut().clear()
clear(self, t) == [LOG_RECORDS EXCEPT ![LOG_RECORDS_with(t)] = <<>>]

\* Faulty variant: there is no Drop implementation that clears.
drop_nothing(self, t) == LOG_RECORDS

\* Faulty variant: the buffer is cleared only when the last handle of the thread goes.
drop_refcounted(self, t) ==
    IF {h \in DOMAIN holder : holder[h] = t} \ {self} = {}
    THEN [LOG_RECORDS EXCEPT ![t] = <<>>]
    ELSE LOG_RECORDS

\* impl Drop for CapLog: self.clear()
drop(self, t) == clear(self, t)

(* ------------------------------------------------------------------ *)
(* Helpers of the actions                                              *)
(* ------------------------------------------------------------------ *)

HeldBy(t) == {h \in Handles : holder[h] = t}

\* The history variable epoch[t] says what last made the buffer of t known:
\*   "none"   nothing yet (or the thread has ended);
\*   "new"    CapLog::new returned on t while the buffer was empty;
\*   "renew"  the same, right after a handle was dropped on t;
\*   "clear", "drop"   clear() was called, a handle was dropped on t;
\*   "clear_shared", "drop_shared"   the same, while t owned another handle;
\*   "unwound"   a panic ended t and dropped the handles it owned.
\* sent[t] holds the records the log macros were given on t since then.
ClearEpochs == {"clear", "clear_shared"}
DropEpochs == {"drop", "drop_shared"}
NewEpochs == {"new", "renew"}
Shared(kind, h, t) == IF HeldBy(t) \ {h} = {} THEN kind ELSE kind \o "_shared"
FreeHandles == {h \in Handles : holder[h] = NoThread}
InNew(t) == pc[t] \in {"set_logger", "set_max_level", "closure_done", "blocked"}
ThreadsInNew == {t \in Threads : InNew(t)}

\* Faulty variant: a new handle starts from an empty buffer.
new_clearing(t) == [LOG_RECORDS EXCEPT ![t] = <<>>]

\* CapLog::new, after call_once: Self {} is built without a look at
\* LOG_RECORDS.
new(t) == LOG_RECORDS

\* CapLog::new returns Self {} to thread t.
ReturnHandle(t) ==
    LET h == CHOOSE x \in FreeHandles : TRUE
        clean == LOG_RECORDS[LOG_RECORDS_with(t)] = <<>>
    IN  /\ LOG_RECORDS' = new(t)
        /\ holder' = [holder EXCEPT ![h] = t]
        /\ pc' = [pc EXCEPT ![t] = "run"]
        /\ epoch' = IF epoch[t] \in DropEpochs /\ sent[t] = <<>>
                    THEN [epoch EXCEPT ![t] = "renew"]
                    ELSE IF clean THEN [epoch EXCEPT ![t] = "new"] ELSE epoch
        /\ sent' = IF clean THEN [sent EXCEPT ![t] = <<>>] ELSE sent
        /\ ret' = NoRet

\* A panic on thread t unwinds its stack: every CapLog it owns is dropped
\* (each drop clears the same buffer), and the thread ends.
Unwind(t) ==
    /\ LOG_RECORDS' = IF HeldBy(t) = {} THEN LOG_RECORDS
                      ELSE drop(CHOOSE h \in HeldBy(t) : TRUE, t)
    /\ holder' = [h \in Handles |-> IF holder[h] = t THEN NoThread ELSE holder[h]]
    /\ pc' = [pc EXCEPT ![t] = "ended"]
    /\ sent' = [sent EXCEPT ![t] = <<>>]
    /\ epoch' = [epoch EXCEPT ![t] = IF HeldBy(t) = {} THEN "none" ELSE "unwound"]
    /\ ret' = NoRet

(* ------------------------------------------------------------------ *)
(* Initial state                                                       *)
(* ------------------------------------------------------------------ *)

Init ==
    /\ once = "INCOMPLETE"
    /\ logger = "Nop"
    /\ max_level = LevelFilterOff
    /\ LOG_RECORDS = [t \in Threads |-> <<>>]
    /\ pc = [t \in Threads |-> "run"]
    /\ holder = [h \in Handles |-> NoThread]
    /\ ret = NoRet
    /\ budget = MaxEmits
    /\ set_logger_calls = 0
    /\ sent = [t \in Threads |-> <<>>]
    /\ epoch = [t \in Threads |-> "none"]

(* ------------------------------------------------------------------ *)
(* CapLog::new                                                         *)
(* ------------------------------------------------------------------ *)

\* Thread t calls CapLog::new and reaches LOG_INIT_ONCE.call_once.
NewCall(t) ==
    /\ pc[t] = "run"
    /\ Cardinality(FreeHandles) > Cardinality(ThreadsInNew)
    /\ LET path == call_once(once)
       IN  CASE path = "return" ->
                  /\ ReturnHandle(t)
                  /\ UNCHANGED <<once, logger, max_level, budget,
                                 set_logger_calls>>
             [] path = "run" ->
                  /\ once' = "RUNNING"
                  /\ pc' = [pc EXCEPT ![t] = "set_logger"]
                  /\ ret' = NoRet
                  /\ UNCHANGED <<logger, max_level, LOG_RECORDS, holder,
                                 budget, set_logger_calls, sent, epoch>>
             [] path = "wait" ->
                  /\ pc' = [pc EXCEPT ![t] = "blocked"]
                  /\ ret' = NoRet
                  /\ UNCHANGED <<once, logger, max_level, LOG_RECORDS, holder, budget, set_logger_calls, sent, epoch>>
             [] path = "panic" ->
                  /\ Unwind(t)
                  /\ UNCHANGED <<once, logger, max_level, budget, set_logger_calls>>

\* The closure of call_once, first half: log::set_logger(&LOGGER).
SetLogger(t) ==
    /\ pc[t] = "set_logger"
    /\ set_logger_calls' = set_logger_calls + 1
    /\ LET result == set_logger(logger)
       IN  /\ logger' = IF result = "Ok" THEN "TestLogger" ELSE logger
           /\ IF closure_after_set_logger(result) = "set_max_level"
              THEN /\ pc' = [pc EXCEPT ![t] = "set_max_level"]
                   /\ ret' = NoRet
                   /\ UNCHANGED <<once, max_level, LOG_RECORDS, holder, budget,
                                  sent, epoch>>
              ELSE \* expect panics inside the closure: the Once is poisoned
                   /\ once' = "POISONED"
                   /\ Unwind(t)
                   /\ UNCHANGED <<max_level, budget>>

\* The closure of call_once, second half: log::set_max_level(Trace).
SetMaxLevel(t) ==
    /\ pc[t] = "set_max_level"
    /\ max_level' = set_max_level(max_level)
    /\ pc' = [pc EXCEPT ![t] = "closure_done"]
    /\ ret' = NoRet
    /\ UNCHANGED <<once, logger, LOG_RECORDS, holder, budget,
                   set_logger_calls, sent, epoch>>

\* The closure has returned: the Once completes and new returns Self {}.
NewReturn(t) ==
    /\ pc[t] = "closure_done"
    /\ once' = "COMPLETE"
    /\ ReturnHandle(t)
    /\ UNCHANGED <<logger, max_level, budget, set_logger_calls>>

\* A thread that waited in call_once looks at the Once again.
Wake(t) ==
    /\ pc[t] = "blocked"
    /\ LET path == call_once(once)
       IN  /\ path \in {"return", "panic"}
           /\ IF path = "return"
              THEN /\ ReturnHandle(t)
                   /\ UNCHANGED <<once, logger, max_level, budget,
                                  set_logger_calls>>
              ELSE /\ Unwind(t)
                   /\ UNCHANGED <<once, logger, max_level, budget,
                                  set_logger_calls>>

\* Code outside this crate installs its own sink into the facade.
ForeignSetLogger ==
    /\ set_logger(logger) = "Ok"
    /\ logger' = "Foreign"
    /\ ret' = NoRet
    /\ UNCHANGED <<once, max_level, LOG_RECORDS, pc, holder, budget,
                   set_logger_calls, sent, epoch>>

(* ------------------------------------------------------------------ *)
(* Emission                                                            *)
(* ------------------------------------------------------------------ *)

\* Thread t runs a log macro with record r. `nested` says that formatting
\* the arguments of r itself emits a log on the same thread: the inner
\* TestLogger::log then calls borrow_mut on a RefCell the outer one has
\* already borrowed mutably, and panics.
Emit(t, r, nested) ==
    /\ pc[t] = "run"
    /\ budget > 0
    /\ budget' = budget - 1
    /\ IF MacroDispatches(r) /\ logger = "TestLogger"
       THEN IF nested /\ RefCell_borrow_mut("mut") = "panic"
            THEN /\ Unwind(t)
                 /\ UNCHANGED <<once, logger, max_level, set_logger_calls>>
            ELSE /\ LOG_RECORDS' = log(t, r)
                 /\ sent' = IF epoch[t] = "none" THEN sent
                            ELSE [sent EXCEPT ![t] = Append(@, CapRecordFrom(r))]
                 /\ ret' = NoRet
                 /\ UNCHANGED <<once, logger, max_level, pc, holder,
                                set_logger_calls, epoch>>
       ELSE \* filtered by the threshold, or taken by another sink
            /\ sent' = IF epoch[t] = "none" THEN sent
                       ELSE [sent EXCEPT ![t] = Append(@, CapRecordFrom(r))]
            /\ ret' = NoRet
            /\ UNCHANGED <<once, logger, max_level, LOG_RECORDS, pc, holder, set_logger_calls, epoch>>

(* ------------------------------------------------------------------ *)
(* The handle                                                          *)
(* ------------------------------------------------------------------ *)

GetAll(t, h) ==
    /\ pc[t] = "run"
    /\ holder[h] = t
    /\ ret' = [op |-> "get_all", thread |-> t, handle |-> h, value |-> get_all(h, t)]
    /\ UNCHANGED <<once, logger, max_level, LOG_RECORDS, pc, holder,
                   budget, set_logger_calls, sent, epoch>>

\* The predicate is called once for every record of the buffer, while the
\* buffer is borrowed.
Find(t, h, m) ==
    /\ pc[t] = "run"
    /\ holder[h] = t
    /\ IF LOG_RECORDS[LOG_RECORDS_with(t)] # <<>> /\ matcher_call(m) = "panic"
       THEN /\ Unwind(t)
            /\ UNCHANGED <<once, logger, max_level, budget, set_logger_calls>>
       ELSE /\ ret' = [op |-> "find", thread |-> t, handle |-> h, matcher |-> m,
                       value |-> find(h, t, m)]
            /\ UNCHANGED <<once, logger, max_level, LOG_RECORDS, pc, holder,
                           budget, set_logger_calls, sent, epoch>>

Clear(t, h) ==
    /\ pc[t] = "run"
    /\ holder[h] = t
    /\ LOG_RECORDS' = clear(h, t)
    /\ sent' = [sent EXCEPT ![t] = <<>>]
    /\ epoch' = [epoch EXCEPT ![t] = Shared("clear", h, t)]
    /\ ret' = NoRet
    /\ UNCHANGED <<once, logger, max_level, pc, holder, budget,
                   set_logger_calls>>

\* The handle goes out of scope on thread t.
Drop(t, h) ==
    /\ pc[t] = "run"
    /\ holder[h] = t
    /\ LOG_RECORDS' = drop(h, t)
    /\ holder' = [holder EXCEPT ![h] = NoThread]
    /\ sent' = [sent EXCEPT ![t] = <<>>]
    /\ epoch' = [epoch EXCEPT ![t] = Shared("drop", h, t)]
    /\ ret' = NoRet
    /\ UNCHANGED <<once, logger, max_level, pc, budget, set_logger_calls>>

\* CapLog has no fields, so it is Send: thread t hands the handle to thread u.
Move(t, u, h) ==
    /\ t # u
    /\ pc[t] = "run"
    /\ pc[u] = "run"
    /\ holder[h] = t
    /\ holder' = [holder EXCEPT ![h] = u]
    /\ ret' = NoRet
    /\ UNCHANGED <<once, logger, max_level, LOG_RECORDS, pc, budget,
                   set_logger_calls, sent, epoch>>

(* ------------------------------------------------------------------ *)
(* Specification                                                       *)
(* ------------------------------------------------------------------ *)

Next ==
    \/ \E t \in Threads : NewCall(t)
    \/ \E t \in Threads : SetLogger(t)
    \/ \E t \in Threads : SetMaxLevel(t)
    \/ \E t \in Threads : NewReturn(t)
    \/ \E t \in Threads : Wake(t)
    \/ ForeignSetLogger
    \/ \E t \in Threads, r \in Records, nested \in BOOLEAN : Emit(t, r, nested)
    \/ \E t \in Threads, h \in Handles : GetAll(t, h)
    \/ \E t \in Threads, h \in Handles, m \in Matchers : Find(t, h, m)
    \/ \E t \in Threads, h \in Handles : Clear(t, h)
    \/ \E t \in Threads, h \in Handles : Drop(t, h)
    \/ \E t, u \in Threads, h \in Handles : Move(t, u, h)

Spec == Init /\ [][Next]_vars

\* The steps of CapLog::new a thread takes by itself once it has entered it:
\* none of them waits for anything but the Once, so a scheduled thread
\* eventually takes them.
NewSteps(t) == SetLogger(t) \/ SetMaxLevel(t) \/ NewReturn(t) \/ Wake(t)

FairSpec == Spec /\ \A t \in Threads : WF_vars(NewSteps(t))

(* ------------------------------------------------------------------ *)
(* The sequential specification: one test on one thread                *)
(* ------------------------------------------------------------------ *)

\* The thread that runs the tests, one after the other and each with one
\* handle at a time; the other threads are never started.
SeqThread == "t1"

InitSeq ==
    /\ once = "INCOMPLETE"
    /\ logger = "Nop"
    /\ max_level = LevelFilterOff
    /\ LOG_RECORDS = [t \in Threads |-> <<>>]
    /\ pc = [t \in Threads |-> IF t = SeqThread THEN "run" ELSE "ended"]
    /\ holder = [h \in Handles |-> NoThread]
    /\ ret = NoRet
    /\ budget = MaxSeqEmits
    /\ set_logger_calls = 0
    /\ sent = [t \in Threads |-> <<>>]
    /\ epoch = [t \in Threads |-> "none"]

NextSeq ==
    \/ HeldBy(SeqThread) = {} /\ NewCall(SeqThread)
    \/ SetLogger(SeqThread)
    \/ SetMaxLevel(SeqThread)
    \/ NewReturn(SeqThread)
    \/ ForeignSetLogger
    \/ \E r \in Records, nested \in BOOLEAN : Emit(SeqThread, r, nested)
    \/ \E h \in Handles : GetAll(SeqThread, h)
    \/ \E h \in Handles, m \in SeqMatchers : Find(SeqThread, h, m)
    \/ \E h \in Handles : Clear(SeqThread, h)
    \/ \E h \in Handles : Drop(SeqThread, h)

SpecSeq == InitSeq /\ [][NextSeq]_vars

(* ------------------------------------------------------------------ *)
(* One test on one thread, find with predicates that are not pure      *)
(* ------------------------------------------------------------------ *)

InitImpure ==
    /\ once = "INCOMPLETE"
    /\ logger = "Nop"
    /\ max_level = LevelFilterOff
    /\ LOG_RECORDS = [t \in Threads |-> <<>>]
    /\ pc = [t \in Threads |-> IF t = SeqThread THEN "run" ELSE "ended"]
    /\ holder = [h \in Handles |-> NoThread]
    /\ ret = NoRet
    /\ budget = MaxEmits
    /\ set_logger_calls = 0
    /\ sent = [t \in Threads |-> <<>>]
    /\ epoch = [t \in Threads |-> "none"]

NextImpure ==
    \/ HeldBy(SeqThread) = {} /\ NewCall(SeqThread)
    \/ SetLogger(SeqThread)
    \/ SetMaxLevel(SeqThread)
    \/ NewReturn(SeqThread)
    \/ \E r \in Records : Emit(SeqThread, r, FALSE)
    \/ \E h \in Handles : GetAll(SeqThread, h)
    \/ \E h \in Handles, m \in ImpureMatchers : Find(SeqThread, h, m)
    \/ \E h \in Handles : Clear(SeqThread, h)
    \/ \E h \in Handles : Drop(SeqThread, h)

SpecImpure == InitImpure /\ [][NextImpure]_vars

(* ------------------------------------------------------------------ *)
(* Properties                                                          *)
(* ------------------------------------------------------------------ *)

\* The buffer thread t observes.
Buffer(t) == LOG_RECORDS[LOG_RECORDS_with(t)]

\* The log::Metadata of a record.
Metadata(r) == [level |-> r.level, target |-> r.target]

CountLevel(records, l) ==
    Cardinality({i \in 1..Len(records) : records[i].level = l})

Tracked(t) == epoch[t] \in NewEpochs \cup ClearEpochs \cup DropEpochs

LiveHandles == {h \in Handles : holder[h] # NoThread}

\* res holds exactly the elements of all that satisfy m, in the order of all.
IsFilterOf(res, all, m) ==
    LET idx == {i \in 1..Len(all) : matcher(m, all[i])}
        nth(k) == CHOOSE i \in idx : Cardinality({j \in idx : j <= i}) = k
    IN  /\ Len(res) = Cardinality(idx)
        /\ \A k \in 1..Len(res) : res[k] = all[nth(k)]

\* C1: when a handle was created on thread t while t's buffer was empty and
\* no clear or drop ran on t since, get_all on t returns exactly the records
\* emitted on t since, in emission order, each once.
C1_GetAllReturnsEmissions ==
    (ret.op = "get_all" /\ epoch[ret.thread] \in NewEpochs)
        => ret.value = sent[ret.thread]

\* A get_all that returned three records, the first and the last equal and
\* the middle one different.
C1_Witness ==
    /\ ret.op = "get_all"
    /\ epoch[ret.thread] \in NewEpochs
    /\ Len(ret.value) = 3
    /\ ret.value[1] = ret.value[3]
    /\ ret.value[1] # ret.value[2]

\* C2: find(m) returns the order-preserving subsequence of what get_all
\* returns in the same state made of exactly the records satisfying m;
\* find(always) equals get_all and find(never) is empty.
C2_FindIsFilterOfGetAll ==
    ret.op = "find" =>
        LET all == get_all(ret.handle, ret.thread)
        IN  /\ IsFilterOf(ret.value, all, ret.matcher)
            /\ \A i \in 1..Len(ret.value) : matcher(ret.matcher, ret.value[i])
            /\ ret.matcher = Always => ret.value = all
            /\ ret.matcher = Never => ret.value = <<>>

\* A find that returned two of four records, skipping the first and one
\* between the two.
C2_Witness ==
    /\ ret.op = "find"
    /\ ret.matcher = LevelIs(LevelWarn)
    /\ Len(ret.value) = 2
    /\ LET all == get_all(ret.handle, ret.thread)
       IN  /\ Len(all) = 4
           /\ all[1].level = LevelInfo
           /\ all[2].level = LevelWarn
           /\ all[3].level = LevelError
           /\ all[4].level = LevelWarn

\* C3: after clear (explicit, or through the drop of a handle) the buffer of
\* the thread is empty and get_all returns the empty sequence; after one
\* emission more get_all returns that record alone.
C3_ClearEmpties ==
    \A t \in Threads :
        (epoch[t] \in ClearEpochs \cup DropEpochs /\ Len(sent[t]) <= 1) =>
            /\ Buffer(t) = sent[t]
            /\ (ret.op = "get_all" /\ ret.thread = t) => ret.value = sent[t]

\* A get_all that returned one record after an explicit clear.
C3_Witness ==
    /\ ret.op = "get_all"
    /\ epoch[ret.thread] = "clear"
    /\ Len(sent[ret.thread]) = 1
    /\ Len(ret.value) = 1

\* C4: right after a handle is destroyed on thread t (it went out of scope,
\* or a panic unwound t) the buffer of t is empty, and a handle created on t
\* next, with no emission in between, returns an empty get_all.
C4_DropClears ==
    \A t \in Threads :
        /\ (epoch[t] \in DropEpochs /\ sent[t] = <<>>) => Buffer(t) = <<>>
        /\ epoch[t] = "unwound" => Buffer(t) = <<>>
        /\ epoch[t] = "renew" /\ sent[t] = <<>> =>
              /\ Buffer(t) = <<>>
              /\ (ret.op = "get_all" /\ ret.thread = t) => Len(ret.value) = 0

\* A get_all through a handle created right after another one was dropped.
C4_Witness ==
    /\ ret.op = "get_all"
    /\ epoch[ret.thread] = "renew"
    /\ sent[ret.thread] = <<>>
    /\ ret.value = <<>>
    /\ budget < MaxSeqEmits

\* C5: whatever the other threads do, the buffer a thread observes (and the
\* get_all it gets) holds exactly the records that thread emitted itself.
C5_ThreadIsolation ==
    \A t \in Threads :
        Tracked(t) =>
            /\ Buffer(t) = sent[t]
            /\ Len(Buffer(t)) = Len(sent[t])
            /\ (ret.op = "get_all" /\ ret.thread = t) => ret.value = sent[t]

\* Two threads, each with its own handle and its own, different record,
\* and a get_all on one of them.
C5_Witness ==
    \E t, u \in Threads :
        /\ t # u
        /\ Tracked(t) /\ Tracked(u)
        /\ HeldBy(t) # {} /\ HeldBy(u) # {}
        /\ Len(sent[t]) = 1 /\ Len(sent[u]) = 1
        /\ sent[t] # sent[u]
        /\ ret.op = "get_all" /\ ret.thread = t /\ ret.value = sent[t]

\* C6: log::set_logger is invoked at most once, whatever the number and the
\* interleaving of the calls of CapLog::new; it has been invoked exactly once
\* when a handle exists; and a call of CapLog::new that no foreign sink makes
\* fail eventually returns a handle.
C6_RegistersOnce ==
    /\ [](set_logger_calls <= 1)
    /\ [](LiveHandles # {} => set_logger_calls = 1)
    /\ [](once = "POISONED" => logger = "Foreign")
    /\ \A t \in Threads : InNew(t) ~> (pc[t] = "run" \/ logger = "Foreign")

\* Concurrent first use: a thread waits while another has registered.
C6_Witness ==
    \E t, u \in Threads :
        /\ pc[t] = "blocked"
        /\ pc[u] = "closure_done"
        /\ set_logger_calls = 1

\* C7: whenever CapLog::new has returned a handle, the TestLogger is the
\* installed sink, the threshold is Trace and no thread is in the middle of
\* the installation.
C7_InstalledBeforeHandle ==
    (LiveHandles # {} \/ \E t \in Threads : epoch[t] # "none") =>
        /\ logger = "TestLogger"
        /\ max_level = LevelFilterTrace
        /\ once = "COMPLETE"
        /\ \A t \in Threads : pc[t] \notin {"set_logger", "set_max_level", "closure_done"}

\* A handle has been returned to one thread while another one, which had
\* found the installation running, still waits.
C7_Witness ==
    \E t, u \in Threads :
        /\ HeldBy(t) # {}
        /\ pc[u] = "blocked"

\* C8: enabled is true of every metadata, and once new has returned on a
\* thread every emission there is captured whatever its level: the buffer
\* holds as many records of each level as were emitted, and so does find.
C8_EveryLevelCaptured ==
    /\ \A r \in Records : enabled(Metadata(r))
    /\ \A t \in Threads :
          Tracked(t) =>
              /\ \A l \in Levels : CountLevel(Buffer(t), l) = CountLevel(sent[t], l)
              /\ (ret.op = "find" /\ ret.thread = t /\ ret.matcher.kind = "level")
                    => Len(ret.value) = CountLevel(sent[t], ret.matcher.level)

\* One record of each of the five levels was emitted, and find of the
\* Trace level returned one record.
C8_Witness ==
    /\ ret.op = "find"
    /\ ret.matcher = LevelIs(LevelTrace)
    /\ Len(ret.value) = 1
    /\ epoch[ret.thread] \in NewEpochs
    /\ \A l \in Levels : CountLevel(sent[ret.thread], l) = 1

\* C9: no handle exists while a foreign sink is the installed one, and the
\* call of CapLog::new that found it installed has panicked.
C9_ConflictIsFatal ==
    logger = "Foreign" =>
        /\ LiveHandles = {}
        /\ \A t \in Threads : pc[t] \notin {"set_max_level", "closure_done"}
        /\ set_logger_calls > 0 =>
              /\ once = "POISONED"
              /\ \E t \in Threads : pc[t] = "ended"

\* CapLog::new has found the foreign sink and panicked.
C9_Witness ==
    /\ logger = "Foreign"
    /\ set_logger_calls = 1
    /\ once = "POISONED"
    /\ \E t \in Threads : pc[t] = "ended"

\* C10: two handles owned by one thread give the same get_all and find
\* results; after clear or drop through one of them the other observes an
\* empty buffer, and then the records emitted since.
C10_HandlesShareBuffer ==
    \A t \in Threads :
        /\ \A h1, h2 \in HeldBy(t) :
              /\ get_all(h1, t) = get_all(h2, t)
              /\ \A m \in Matchers : find(h1, t, m) = find(h2, t, m)
        /\ epoch[t] \in {"clear_shared", "drop_shared"} =>
              /\ Buffer(t) = sent[t]
              /\ \A h \in HeldBy(t) : get_all(h, t) = sent[t]
              /\ (ret.op = "get_all" /\ ret.thread = t) => ret.value = sent[t]

\* A handle was dropped on a thread that owned another one, a record was
\* emitted and get_all through the other handle returned it.
C10_Witness ==
    /\ ret.op = "get_all"
    /\ epoch[ret.thread] = "drop_shared"
    /\ holder[ret.handle] = ret.thread
    /\ Len(ret.value) = 1

\* The handles CapLog::new returns in the step.
Started == LiveHandles' \ LiveHandles

\* C11: a handle just started on a thread sees no record emitted on that
\* thread before it was started, so the buffer it starts with is empty.
C11_NothingLeaks ==
    [][\A h \in Started : LOG_RECORDS'[LOG_RECORDS_with(holder'[h])] = <<>>]_vars

\* C12: get_all, find with any predicate, and clear always return to their
\* caller, whatever the buffer holds.
C12_QueriesNeverFail ==
    [][\A t \in Threads, h \in Handles :
          (GetAll(t, h) \/ Clear(t, h) \/ \E m \in ImpureMatchers : Find(t, h, m))
              => pc'[t] = "run"]_vars

\* The log macro run on t hands record r to TestLogger::log in the step.
Dispatched(t, r, nested) ==
    /\ Emit(t, r, nested)
    /\ MacroDispatches(r)
    /\ logger = "TestLogger"

\* C13: every record handed to TestLogger::log is captured and the call
\* returns, also when formatting its arguments emits a log too.
C13_EmitNeverFails ==
    [][\A t \in Threads, r \in Records, nested \in BOOLEAN :
          Dispatched(t, r, nested) =>
              /\ pc'[t] = "run"
              /\ Len(LOG_RECORDS'[t]) > Len(LOG_RECORDS[t])
              /\ CapRecordFrom(r) \in {LOG_RECORDS'[t][i] : i \in Len(LOG_RECORDS[t]) + 1 .. Len(LOG_RECORDS'[t])}]_vars

\* C14: an emission on t appends one record at the end of the buffer of t
\* and changes no other buffer, nor the installed logger, the Once or the
\* threshold.
C14_EmitFrame ==
    [][\A t \in Threads, r \in Records, nested \in BOOLEAN :
          Dispatched(t, r, nested) =>
              /\ LOG_RECORDS' = [LOG_RECORDS EXCEPT ![t] = Append(@, CapRecordFrom(r))]
              /\ UNCHANGED <<once, logger, max_level>>]_vars

\* C15: clear and drop empty the buffer of the thread that executes them and
\* change no other buffer, wherever the handle was created: a thread whose
\* handles were moved away keeps what it emitted since it created them,
\* whatever the other threads do with those handles.
C15_ClearActsOnExecutingThread ==
    /\ [][\A t \in Threads :
             \/ /\ LOG_RECORDS'[t] = <<>>
                /\ \A u \in Threads \ {t} : LOG_RECORDS'[u] = LOG_RECORDS[u]
             \/ ~\E h \in Handles : Clear(t, h) \/ Drop(t, h)]_vars
    /\ [](\A t \in Threads :
             (epoch[t] \in NewEpochs /\ HeldBy(t) = {}) => LOG_RECORDS[t] = sent[t])

\* Thread a created handles on a clean buffer, emitted, and never cleared
\* or dropped since; it owns no handle and none is live, so its handles were
\* moved to b and dropped there: the buffer of b is empty, the one of a is
\* what it emitted.
C15_Witness ==
    \E a \in Threads, b \in Threads :
        /\ a # b
        /\ LiveHandles = {}
        /\ epoch[a] \in NewEpochs
        /\ sent[a] # <<>>
        /\ LOG_RECORDS[a] = sent[a]
        /\ epoch[b] \in DropEpochs
        /\ LOG_RECORDS[b] = <<>>

\* A step of CapLog::new on thread t.
NewStep(t) == NewCall(t) \/ NewSteps(t)

\* C16: no step of CapLog::new, registering or not, returning or not,
\* changes a buffer, and no step that returns from get_all or find does;
\* what a query returned is what the same query returns for as long as
\* nothing is emitted or cleared.
C16_NewAndQueriesLeaveBuffers ==
    /\ [][\/ LOG_RECORDS' = LOG_RECORDS
          \/ /\ ret'.op \notin {"get_all", "find"}
             /\ ~\E t \in Threads : NewStep(t)]_vars
    /\ [](/\ ret.op = "get_all" => ret.value = get_all(ret.handle, ret.thread)
          /\ ret.op = "find" => ret.value = find(ret.handle, ret.thread, ret.matcher))

\* Thread u never created a handle. Thread t dropped its only handle,
\* emitted, and then created both handles over the buffer that was not
\* empty; a query through them returns what was emitted.
C16_Witness ==
    \E t \in Threads, u \in Threads :
        /\ t # u
        /\ epoch[t] = "drop"
        /\ HeldBy(t) = Handles
        /\ sent[t] # <<>>
        /\ LOG_RECORDS[t] = sent[t]
        /\ epoch[u] = "none" /\ pc[u] = "run" /\ LOG_RECORDS[u] = <<>>
        /\ ret.op = "get_all" /\ ret.thread = t /\ ret.value = sent[t]

IsPrefix(a, b) == Len(a) <= Len(b) /\ a = SubSeq(b, 1, Len(a))

\* Thread t executes clear, drops a handle, or unwinds with handles to drop.
ClearsOrDrops(t) ==
    \/ \E h \in Handles : Clear(t, h) \/ Drop(t, h)
    \/ pc[t] # "ended" /\ pc'[t] = "ended" /\ HeldBy(t) # {}

\* C17: in a step that is no clear or drop on the thread, the buffer of the
\* thread only grows at its end; in any step a buffer that gets shorter
\* gets empty.
C17_AppendOnly ==
    [][\A t \in Threads :
          /\ IsPrefix(LOG_RECORDS[t], LOG_RECORDS'[t]) \/ ClearsOrDrops(t)
          /\ Len(LOG_RECORDS'[t]) < Len(LOG_RECORDS[t]) => LOG_RECORDS'[t] = <<>>]_vars

\* A buffer was cleared, and two different records were appended since.
C17_Witness ==
    \E t \in Threads :
        /\ epoch[t] \in ClearEpochs \cup DropEpochs
        /\ Len(LOG_RECORDS[t]) = 2
        /\ LOG_RECORDS[t][1] # LOG_RECORDS[t][2]

\* C18: once CapLog::new has failed on a conflict, set_logger is not called
\* again: it was called once and no handle exists; every later step of
\* CapLog::new, of a new caller or of one that waited, ends its thread and
\* leaves the Once poisoned; the failing step and all later ones leave the
\* threshold and the buffers as they were.
C18_FailureIsPermanent ==
    /\ [](once = "POISONED" =>
             /\ set_logger_calls = 1
             /\ LiveHandles = {}
             /\ \A t \in Threads : pc[t] \in {"run", "blocked", "ended"})
    /\ [][once = "POISONED" =>
             /\ once' = "POISONED"
             /\ set_logger_calls' = set_logger_calls
             /\ \A t \in Threads : NewStep(t) => pc'[t] = "ended"]_vars
    /\ [][once' = "POISONED" =>
             /\ max_level' = max_level
             /\ LOG_RECORDS' = LOG_RECORDS]_vars

\* The registration failed, and a call of CapLog::new on the other thread
\* failed too: both threads have ended, set_logger was called once.
C18_Witness ==
    /\ once = "POISONED"
    /\ \A t \in Threads : pc[t] = "ended"
    /\ set_logger_calls = 1
    /\ LiveHandles = {}

====
